---- MODULE Spec2Model ----
(***************************************************************************)
(* Model of deepl/adapter.py: the Adapter contract and its two transports, *)
(* RequestsAdapter (blocking, one thread per call) and AiohttpAdapter      *)
(* (cooperative tasks).  A call is followed from the caller's invocation   *)
(* through the injection of auth_key into the parameter mapping, the       *)
(* hand-over to the transport, the decoding of the response and the        *)
(* status cascade, up to the value returned or the error raised.           *)
(*                                                                         *)
(* Python objects are modelled by reference where the code shares them:    *)
(* the default `payload: dict = {}` is one mapping per function object     *)
(* (one per adapter class), a caller-supplied mapping is the caller's.     *)
(***************************************************************************)
EXTENDS Integers, Sequences, FiniteSets, TLC

\* ---------------------------------------------------------------- bounds
NumAdapters == 2
NumCallers == 2

Adapters == 1..NumAdapters
Callers == 1..NumCallers

\* ---------------------------------------------------------------- values
Classes == {"RequestsAdapter", "AiohttpAdapter"}

\* Every instance is constructed with an authentication key of its own.
KeyOf(a) == "K" \o ToString(a)

\* A Python dict with string keys: a function whose domain is its key set.
EmptyDict == [k \in {} |-> ""]

\* Decoded JSON values, tagged by Python type; None is the absent body.
None == [t |-> "none", v |-> EmptyDict]
PyDict(d) == [t |-> "dict", v |-> d]
PyList(l) == [t |-> "list", v |-> l]
PyStr(s) == [t |-> "str", v |-> s]

JsonValues ==
    { PyDict(EmptyDict),
      PyDict([message |-> "Quota exceeded"]),
      PyDict([character_count |-> "100"]),
      PyDict([translations |-> << >>]),
      PyDict([translations |-> << [text |-> "Hallo"] >>]),
      PyDict([translations |-> << [text |-> "Hallo"], [text |-> "Welt"] >>]),
      PyDict([translations |-> << [detected |-> "EN"] >>]),
      PyDict([message |-> "note", translations |-> << [text |-> "Hallo"] >>]),
      PyList(<< >>),
      PyList(<< [language |-> "EN"] >>),
      PyList(<< [message |-> "listed"] >>) }

\* The body of an HTTP response as the transport holds it, before decoding.
RawBodies ==
    { [kind |-> "empty", json |-> None], [kind |-> "invalid", json |-> None] }
    \cup { [kind |-> "json", json |-> j] : j \in JsonValues }

Statuses == {200, 299, 300, 400, 401, 403, 404, 413, 414, 429, 456, 500, 503, 599}

Responses == [status_code : Statuses, body : RawBodies]

\* The responses used when calls overlap: one success, one mapped error.
ThreadResponses ==
    { [status_code |-> 200, body |-> [kind |-> "json", json |-> PyDict([character_count |-> "100"])]],
      [status_code |-> 456, body |-> [kind |-> "json", json |-> PyDict([message |-> "Quota exceeded"])]] }

\* Parameter mappings a caller may pass as payload.
Payloads ==
    { EmptyDict,
      [text |-> "Hello"],
      [text |-> "Hello", auth_key |-> "K2"] }

Methods == {"GET", "POST"}
Paths == {"/usage"}

\* ------------------------------------------------------ outcome of a call
Return(val) == [kind |-> "return", error |-> "", message |-> "", value |-> val]
Raise(err, msg) == [kind |-> "raise", error |-> err, message |-> msg, value |-> None]
NoOutcome == [kind |-> "none", error |-> "", message |-> "", value |-> None]

\* The exception kinds of deepl.errors that request raises.
TypedErrors == {"BadRequest", "Forbidden", "NotFound", "PayloadTooLarge",
                "URITooLong", "TooManyRequests", "QuotaExceeded",
                "ServiceUnavailable", "InternalServerError", "HTTPException"}

NoSent == [method |-> "", url |-> "", headers |-> "", params |-> EmptyDict]
NoResp == [status_code |-> 0, body |-> [kind |-> "empty", json |-> None]]

\* ------------------------------------------------- Python value semantics
\* Truth value of a decoded body: None, {} and [] are false.
Truthy(data) ==
    CASE data.t = "none" -> FALSE
      [] data.t = "dict" -> DOMAIN data.v # {}
      [] data.t = "list" -> Len(data.v) > 0
      [] OTHER -> TRUE

\* data.get('message', '') if data else ''  -- a list has no .get attribute.
MessageOf(data) ==
    IF ~Truthy(data) THEN [ok |-> TRUE, message |-> ""]
    ELSE IF data.t = "dict"
         THEN [ok |-> TRUE,
               message |-> IF "message" \in DOMAIN data.v THEN data.v["message"] ELSE ""]
         ELSE [ok |-> FALSE, message |-> ""]

\* Variant: reads the last element of translations instead of the first.
TranslationText_Last(data) ==
    IF data.t = "none" THEN Raise("TypeError", "")
    ELSE IF data.t = "list" THEN Raise("TypeError", "")
    ELSE IF "translations" \notin DOMAIN data.v THEN Raise("KeyError", "")
    ELSE LET translations == data.v["translations"] IN
         IF Len(translations) = 0 THEN Raise("IndexError", "")
         ELSE IF "text" \notin DOMAIN translations[Len(translations)] THEN Raise("KeyError", "")
         ELSE Return(PyStr(translations[Len(translations)]["text"]))

\* data['translations'][0]['text'] with the failures of each subscript.
TranslationText(data) ==
    IF data.t = "none" THEN Raise("TypeError", "")
    ELSE IF data.t = "list" THEN Raise("TypeError", "")
    ELSE IF "translations" \notin DOMAIN data.v THEN Raise("KeyError", "")
    ELSE LET translations == data.v["translations"] IN
         IF Len(translations) = 0 THEN Raise("IndexError", "")
         ELSE IF "text" \notin DOMAIN translations[1] THEN Raise("KeyError", "")
         ELSE Return(PyStr(translations[1]["text"]))

\* payload['auth_key'] = value: item assignment on a dict.
SetItem(payload, key, value) ==
    [k \in DOMAIN payload \cup {key} |-> IF k = key THEN value ELSE payload[k]]

\* --------------------------------------------------------------- Adapter
Adapter_init(cls, authentication_key, pro) ==
    [cls |-> cls,
     base_url_free |-> "https://api-free.deepl.com/",
     base_url_pro |-> "https://api.deepl.com/",
     api_version |-> "v2",
     auth_key |-> authentication_key,
     pro |-> pro]

\* ------------------------------------------------------- RequestsAdapter
RequestsAdapter_headers == "content-type: x-www-form-urlencoded"

\* Variant: payload.setdefault('auth_key', ...) keeps an entry already there.
RequestsAdapter_inject_SetDefault(self, payload) ==
    IF "auth_key" \in DOMAIN payload THEN payload
    ELSE SetItem(payload, "auth_key", self.auth_key)

RequestsAdapter_inject(self, payload) == SetItem(payload, "auth_key", self.auth_key)

\* Variant: the two tiers exchanged.
RequestsAdapter_url_Swapped(self, path) ==
    (IF self.pro THEN self.base_url_free ELSE self.base_url_pro)
        \o self.api_version \o path

RequestsAdapter_url(self, path) ==
    (IF self.pro THEN self.base_url_pro ELSE self.base_url_free)
        \o self.api_version \o path

\* resp.json() raises JSONDecodeError on an empty or malformed body; the
\* except clause turns that into None.
RequestsAdapter_json(body) ==
    IF body.kind = "json" THEN body.json ELSE None

RequestsAdapter_raise(status_code, message) ==
    IF status_code = 400 THEN Raise("BadRequest", message)
    ELSE IF status_code = 403 THEN Raise("Forbidden", message)
    ELSE IF status_code = 404 THEN Raise("NotFound", message)
    ELSE IF status_code = 413 THEN Raise("PayloadTooLarge", message)
    ELSE IF status_code = 414 THEN Raise("URITooLong", message)
    ELSE IF status_code = 429 THEN Raise("TooManyRequests", message)
    ELSE IF status_code = 456 THEN Raise("QuotaExceeded", message)
    ELSE IF status_code = 503 THEN Raise("ServiceUnavailable", message)
    ELSE IF 500 <= status_code /\ status_code < 600 THEN Raise("InternalServerError", message)
    ELSE Raise("HTTPException", message)

\* request, from the decoding of the response to the return or raise.
RequestsAdapter_request(resp) ==
    LET data == RequestsAdapter_json(resp.body)
        status_code == resp.status_code
    IN  IF 200 <= status_code /\ status_code < 300 THEN Return(data)
        ELSE LET m == MessageOf(data) IN
             IF ~m.ok THEN Raise("AttributeError", "")
             ELSE RequestsAdapter_raise(status_code, m.message)

RequestsAdapter_get_translated_text(r) ==
    IF r.kind = "raise" THEN r ELSE TranslationText(r.value)

RequestsAdapter_get_usage(r) == r

RequestsAdapter_get_supported_languages(r) == r

\* -------------------------------------------------------- AiohttpAdapter
AiohttpAdapter_headers == "content-type: x-www-form-urlencoded"

\* Variant: payload.setdefault('auth_key', ...) keeps an entry already there.
AiohttpAdapter_inject_SetDefault(self, payload) ==
    IF "auth_key" \in DOMAIN payload THEN payload
    ELSE SetItem(payload, "auth_key", self.auth_key)

AiohttpAdapter_inject(self, payload) == SetItem(payload, "auth_key", self.auth_key)

AiohttpAdapter_url(self, path) ==
    (IF self.pro THEN self.base_url_pro ELSE self.base_url_free)
        \o self.api_version \o path

\* Variant: a body that does not decode yields an empty mapping, not None.
AiohttpAdapter_json_EmptyDict(body) ==
    IF body.kind = "json" THEN body.json ELSE PyDict(EmptyDict)

\* resp.json(content_type=None) returns None for an empty body and raises
\* JSONDecodeError on a malformed one; the except clause yields None.
AiohttpAdapter_json(body) ==
    IF body.kind = "empty" THEN None
    ELSE IF body.kind = "invalid" THEN None
    ELSE body.json

\* Variant: the 5xx range is tested before the 503 case.
AiohttpAdapter_raise_RangeFirst(status_code, message) ==
    IF status_code = 400 THEN Raise("BadRequest", message)
    ELSE IF status_code = 403 THEN Raise("Forbidden", message)
    ELSE IF status_code = 404 THEN Raise("NotFound", message)
    ELSE IF status_code = 413 THEN Raise("PayloadTooLarge", message)
    ELSE IF status_code = 414 THEN Raise("URITooLong", message)
    ELSE IF status_code = 429 THEN Raise("TooManyRequests", message)
    ELSE IF status_code = 456 THEN Raise("QuotaExceeded", message)
    ELSE IF 500 <= status_code /\ status_code < 600 THEN Raise("InternalServerError", message)
    ELSE IF status_code = 503 THEN Raise("ServiceUnavailable", message)
    ELSE Raise("HTTPException", message)

AiohttpAdapter_raise(status_code, message) ==
    IF status_code = 400 THEN Raise("BadRequest", message)
    ELSE IF status_code = 403 THEN Raise("Forbidden", message)
    ELSE IF status_code = 404 THEN Raise("NotFound", message)
    ELSE IF status_code = 413 THEN Raise("PayloadTooLarge", message)
    ELSE IF status_code = 414 THEN Raise("URITooLong", message)
    ELSE IF status_code = 429 THEN Raise("TooManyRequests", message)
    ELSE IF status_code = 456 THEN Raise("QuotaExceeded", message)
    ELSE IF status_code = 503 THEN Raise("ServiceUnavailable", message)
    ELSE IF 500 <= status_code /\ status_code < 600 THEN Raise("InternalServerError", message)
    ELSE Raise("HTTPException", message)

AiohttpAdapter_request(resp) ==
    LET data == AiohttpAdapter_json(resp.body)
        status_code == resp.status_code
    IN  IF 200 <= status_code /\ status_code < 300 THEN Return(data)
        ELSE LET m == MessageOf(data) IN
             IF ~m.ok THEN Raise("AttributeError", "")
             ELSE AiohttpAdapter_raise(status_code, m.message)

AiohttpAdapter_get_translated_text(r) ==
    IF r.kind = "raise" THEN r ELSE TranslationText(r.value)

AiohttpAdapter_get_usage(r) == r

AiohttpAdapter_get_supported_languages(r) == r

\* ------------------------------------------------- dispatch on the class
Inject(self, payload) ==
    IF self.cls = "RequestsAdapter" THEN RequestsAdapter_inject(self, payload)
    ELSE AiohttpAdapter_inject(self, payload)

Url(self, path) ==
    IF self.cls = "RequestsAdapter" THEN RequestsAdapter_url(self, path)
    ELSE AiohttpAdapter_url(self, path)

Headers(self) ==
    IF self.cls = "RequestsAdapter" THEN RequestsAdapter_headers
    ELSE AiohttpAdapter_headers

Request(self, resp) ==
    IF self.cls = "RequestsAdapter" THEN RequestsAdapter_request(resp)
    ELSE AiohttpAdapter_request(resp)

\* What the called operation makes of the outcome of self.request(...).
Complete(self, op, r) ==
    IF self.cls = "RequestsAdapter"
    THEN CASE op = "get_translated_text" -> RequestsAdapter_get_translated_text(r)
           [] op = "get_usage" -> RequestsAdapter_get_usage(r)
           [] op = "get_supported_languages" -> RequestsAdapter_get_supported_languages(r)
           [] OTHER -> r
    ELSE CASE op = "get_translated_text" -> AiohttpAdapter_get_translated_text(r)
           [] op = "get_usage" -> AiohttpAdapter_get_usage(r)
           [] op = "get_supported_languages" -> AiohttpAdapter_get_supported_languages(r)
           [] OTHER -> r

\* What a caller writes: the operation and its arguments.  given says whether
\* a payload mapping is passed; request called without one uses the default.
Invocations ==
    { [op |-> "request", method |-> m, path |-> p, given |-> TRUE, payload |-> pl]
        : m \in Methods, p \in Paths, pl \in Payloads }
    \cup { [op |-> "request", method |-> m, path |-> p, given |-> FALSE, payload |-> EmptyDict]
        : m \in Methods, p \in Paths }
    \cup { [op |-> "get_translated_text", method |-> "", path |-> "", given |-> TRUE,
            payload |-> pl] : pl \in Payloads }
    \cup { [op |-> o, method |-> "", path |-> "", given |-> FALSE, payload |-> EmptyDict]
        : o \in {"get_usage", "get_supported_languages"} }

\* The arguments with which the invoked operation reaches self.request:
\* method, path and the mapping bound to payload ("own" is the caller's
\* mapping, "default" the default value of the parameter).
RequestsAdapter_args(inv) ==
    CASE inv.op = "get_translated_text" ->
            [method |-> "POST", path |-> "/translate", ref |-> "own"]
      [] inv.op = "get_usage" ->
            [method |-> "POST", path |-> "/usage", ref |-> "default"]
      [] inv.op = "get_supported_languages" ->
            [method |-> "POST", path |-> "/languages", ref |-> "default"]
      [] OTHER ->
            [method |-> inv.method, path |-> inv.path,
             ref |-> IF inv.given THEN "own" ELSE "default"]

AiohttpAdapter_args(inv) ==
    CASE inv.op = "get_translated_text" ->
            [method |-> "POST", path |-> "/translate", ref |-> "own"]
      [] inv.op = "get_usage" ->
            [method |-> "POST", path |-> "/usage", ref |-> "default"]
      [] inv.op = "get_supported_languages" ->
            [method |-> "POST", path |-> "/languages", ref |-> "default"]
      [] OTHER ->
            [method |-> inv.method, path |-> inv.path,
             ref |-> IF inv.given THEN "own" ELSE "default"]

Args(self, inv) ==
    IF self.cls = "RequestsAdapter" THEN RequestsAdapter_args(inv)
    ELSE AiohttpAdapter_args(inv)

\* ----------------------------------------------------------------- state
VARIABLES
    ctor,       \* the constructor arguments of each adapter instance
    adapters,   \* the attributes of each adapter instance
    defaults,   \* per class, the mapping that is request's default payload
    own,        \* per caller, the mapping the caller passes as payload
    calls       \* per caller, the call in progress; seen is the payload mapping
                \* as request found it, sent what the transport was handed

vars == <<ctor, adapters, defaults, own, calls>>

NoInvocation == [op |-> "", method |-> "", path |-> "", given |-> FALSE, payload |-> EmptyDict]

Idle == [pc |-> "idle", adapter |-> 1, inv |-> NoInvocation,
         method |-> "", path |-> "", ref |-> "", seen |-> EmptyDict,
         sent |-> NoSent, resp |-> NoResp, result |-> NoOutcome, outcome |-> NoOutcome]

CtorArgs(a) == [cls : Classes, authentication_key : {KeyOf(a)}, pro : BOOLEAN]

Init ==
    /\ ctor \in [Adapters -> UNION {CtorArgs(a) : a \in Adapters}]
    /\ \A a \in Adapters : ctor[a] \in CtorArgs(a)
    /\ adapters = [a \in Adapters |->
                     Adapter_init(ctor[a].cls, ctor[a].authentication_key, ctor[a].pro)]
    /\ defaults = [cls \in Classes |-> EmptyDict]
    /\ own = [c \in Callers |-> EmptyDict]
    /\ calls = [c \in Callers |-> Idle]

Self(c) == adapters[calls[c].adapter]

\* The mapping bound to payload in the call of c.
Payload(c) ==
    IF calls[c].ref = "default" THEN defaults[Self(c).cls] ELSE own[c]

\* ---------------------------------------------------------------- actions
\* A caller invokes an operation of an adapter; the operation calls
\* self.request with its method, path and payload.
Call(c) ==
    /\ calls[c].pc = "idle"
    /\ \E a \in Adapters, inv \in Invocations :
         LET args == Args(adapters[a], inv) IN
         /\ calls' = [calls EXCEPT ![c] =
                [Idle EXCEPT !.pc = "start", !.adapter = a, !.inv = inv,
                             !.method = args.method, !.path = args.path,
                             !.ref = args.ref]]
         /\ own' = [own EXCEPT ![c] = inv.payload]
    /\ UNCHANGED <<ctor, adapters, defaults>>

\* The mappings after payload['auth_key'] = self.auth_key in the call of c.
DefaultsAfterInject(c) ==
    IF calls[c].ref = "default"
    THEN [defaults EXCEPT ![Self(c).cls] = Inject(Self(c), defaults[Self(c).cls])]
    ELSE defaults

OwnAfterInject(c) ==
    IF calls[c].ref = "default" THEN own
    ELSE [own EXCEPT ![c] = Inject(Self(c), own[c])]

\* What the transport is handed, given the mapping params refers to.
Sent(c, params) ==
    [method |-> calls[c].method,
     url |-> Url(Self(c), calls[c].path),
     headers |-> Headers(Self(c)),
     params |-> params]

\* RequestsAdapter.request, first statements: the thread writes auth_key
\* into the mapping; other threads run before it reaches the transport.
RequestsInject(c) ==
    /\ calls[c].pc = "start"
    /\ Self(c).cls = "RequestsAdapter"
    /\ defaults' = DefaultsAfterInject(c)
    /\ own' = OwnAfterInject(c)
    /\ calls' = [calls EXCEPT ![c].pc = "injected", ![c].seen = Payload(c)]
    /\ UNCHANGED <<ctor, adapters>>

\* RequestsAdapter.request: the URL is built and requests.request reads the
\* mapping as it is now.
RequestsDispatch(c) ==
    /\ calls[c].pc = "injected"
    /\ calls' = [calls EXCEPT ![c].pc = "waiting", ![c].sent = Sent(c, Payload(c))]
    /\ UNCHANGED <<ctor, adapters, defaults, own>>

\* AiohttpAdapter.request up to the suspension at the network I/O: the task
\* runs from the injection to the hand-over without yielding.
AiohttpDispatch(c) ==
    /\ calls[c].pc = "start"
    /\ Self(c).cls = "AiohttpAdapter"
    /\ defaults' = DefaultsAfterInject(c)
    /\ own' = OwnAfterInject(c)
    /\ calls' = [calls EXCEPT ![c].pc = "waiting", ![c].seen = Payload(c),
                              ![c].sent = Sent(c, Inject(Self(c), Payload(c)))]
    /\ UNCHANGED <<ctor, adapters>>

\* The response arrives: request decodes it and returns or raises, and the
\* invoked operation returns, extracts or lets the error through.
Respond(c, responses) ==
    /\ calls[c].pc = "waiting"
    /\ \E resp \in responses :
         LET r == Request(Self(c), resp) IN
         calls' = [calls EXCEPT ![c].pc = "done", ![c].resp = resp, ![c].result = r,
                                ![c].outcome = Complete(Self(c), calls[c].inv.op, r)]
    /\ UNCHANGED <<ctor, adapters, defaults, own>>

\* The transport fails without a response; nothing catches its error.
TransportError(c) ==
    /\ calls[c].pc = "waiting"
    /\ calls' = [calls EXCEPT ![c].pc = "done",
                              ![c].result = Raise("TransportError", ""),
                              ![c].outcome = Raise("TransportError", "")]
    /\ UNCHANGED <<ctor, adapters, defaults, own>>

\* The caller has its value or error and drops its mapping.
Finish(c) ==
    /\ calls[c].pc = "done"
    /\ calls' = [calls EXCEPT ![c] = Idle]
    /\ own' = [own EXCEPT ![c] = EmptyDict]
    /\ UNCHANGED <<ctor, adapters, defaults>>

\* The caller of a sequential program.
Main == CHOOSE c \in Callers : \A d \in Callers : c <= d

\* Calls made one after the other by one caller, against any response.
Next ==
    \E c \in {Main} :
        \/ Call(c)
        \/ RequestsInject(c)
        \/ RequestsDispatch(c)
        \/ AiohttpDispatch(c)
        \/ Respond(c, Responses)
        \/ TransportError(c)
        \/ Finish(c)

Spec == Init /\ [][Next]_vars

\* Calls of independent threads or tasks, overlapping freely.
ThreadNext ==
    \E c \in Callers :
        \/ Call(c)
        \/ RequestsInject(c)
        \/ RequestsDispatch(c)
        \/ AiohttpDispatch(c)
        \/ Respond(c, ThreadResponses)
        \/ TransportError(c)
        \/ Finish(c)

ThreadSpec == Init /\ [][ThreadNext]_vars

\* ------------------------------------------------------------ properties
Dispatched(c) == calls[c].pc \in {"waiting", "done"}
Responded(c) == calls[c].pc = "done" /\ calls[c].resp.status_code # 0
Status(c) == calls[c].resp.status_code
Body(c) == calls[c].resp.body
Success(c) == 200 <= Status(c) /\ Status(c) < 300

\* The decoded body carries a message field.
HasMessage(body) ==
    body.kind = "json" /\ body.json.t = "dict" /\ "message" \in DOMAIN body.json.v

ExpectedMessage(body) == IF HasMessage(body) THEN body.json.v["message"] ELSE ""

\* The table of specific statuses and their error kinds.
MappedStatuses == {400, 403, 404, 413, 414, 429, 456, 503}

MappedKind(status_code) ==
    CASE status_code = 400 -> "BadRequest"
      [] status_code = 403 -> "Forbidden"
      [] status_code = 404 -> "NotFound"
      [] status_code = 413 -> "PayloadTooLarge"
      [] status_code = 414 -> "URITooLong"
      [] status_code = 429 -> "TooManyRequests"
      [] status_code = 456 -> "QuotaExceeded"
      [] status_code = 503 -> "ServiceUnavailable"

\* C1: for a response with a status of the table, request raises exactly the
\* kind the table assigns, with the body's message field when it has one.
C1_MappedStatusRaisesKind ==
    \A c \in Callers :
        (Responded(c) /\ Status(c) \in MappedStatuses) =>
            /\ calls[c].result.kind = "raise"
            /\ calls[c].result.error = MappedKind(Status(c))
            /\ HasMessage(Body(c)) => calls[c].result.message = Body(c).json.v["message"]

\* C2: for every non-2xx response, whatever its body, request raises one of
\* the typed error kinds, with the body's message field or the empty string.
C2_NonSuccessRaisesTypedError ==
    \A c \in Callers :
        (Responded(c) /\ ~Success(c)) =>
            /\ calls[c].result.kind = "raise"
            /\ calls[c].result.error \in TypedErrors
            /\ calls[c].result.message = ExpectedMessage(Body(c))

\* C3: for every 2xx response request returns the decoded body unchanged, and
\* the absent value when the body is empty or not JSON; it does not raise.
C3_SuccessReturnsBody ==
    \A c \in Callers :
        (Responded(c) /\ Success(c)) =>
            calls[c].result =
                Return(IF Body(c).kind = "json" THEN Body(c).json ELSE None)

C3_Witness ==
    \E c \in Callers :
        /\ Responded(c) /\ Success(c)
        /\ Body(c).kind = "invalid"
        /\ calls[c].result = Return(None)

\* C4: a 5xx status other than 503 raises InternalServerError, and 503 raises
\* ServiceUnavailable, never InternalServerError.
C4_ServerErrors ==
    \A c \in Callers :
        (Responded(c) /\ 500 <= Status(c) /\ Status(c) < 600) =>
            /\ calls[c].result.kind = "raise"
            /\ calls[c].result.error =
                 IF Status(c) = 503 THEN "ServiceUnavailable" ELSE "InternalServerError"

\* The mapping a caller passed, or the empty default, with auth_key set to
\* the key of the instance: the parameter set of a call left to itself.
OwnParams(c) ==
    [k \in DOMAIN calls[c].inv.payload \cup {"auth_key"} |->
        IF k = "auth_key" THEN KeyOf(calls[c].adapter) ELSE calls[c].inv.payload[k]]

\* C5: under every interleaving of calls, what a call hands to the transport
\* carries the key of the instance that issued it and no entry of another call.
C5_CallsIsolated ==
    \A c \in Callers : Dispatched(c) => calls[c].sent.params = OwnParams(c)

\* The same configuration held by an instance of the other class.
Twin(self) ==
    Adapter_init(IF self.cls = "RequestsAdapter" THEN "AiohttpAdapter" ELSE "RequestsAdapter",
                 self.auth_key, self.pro)

\* What the twin hands to the transport for the invocation of c: its default
\* mapping is the one of its own class.
TwinSent(c) ==
    LET twin == Twin(Self(c))
        args == Args(twin, calls[c].inv)
        payload == IF args.ref = "default" THEN defaults[twin.cls] ELSE calls[c].inv.payload
    IN  [method |-> args.method,
         url |-> Url(twin, args.path),
         headers |-> Headers(twin),
         params |-> Inject(twin, payload)]

\* C6: for the same configuration, invocation and response, the blocking and
\* the non-blocking adapter hand the transport the same method, URL, header
\* and parameter set and end with the same value or the same error.
C6_AdaptersEquivalent ==
    \A c \in Callers :
        /\ Dispatched(c) => calls[c].sent = TwinSent(c)
        /\ Responded(c) =>
             calls[c].outcome =
                Complete(Twin(Self(c)), calls[c].inv.op, Request(Twin(Self(c)), calls[c].resp))

C6_Witness ==
    \E c \in Callers :
        /\ Responded(c)
        /\ Self(c).cls = "AiohttpAdapter"
        /\ calls[c].inv.op = "get_usage"
        /\ Status(c) = 503
        /\ Body(c).kind = "empty"
        /\ calls[c].outcome = Raise("ServiceUnavailable", "")
        /\ calls[c].sent.params = [auth_key |-> Self(c).auth_key]

\* C7: every request of an instance goes to the base URL of the tier given to
\* its constructor, followed by the API version and the path.
C7_OneBaseUrl ==
    /\ \A a \in Adapters : adapters[a].pro = ctor[a].pro
    /\ \A c \in Callers :
         Dispatched(c) =>
            calls[c].sent.url =
                (IF ctor[calls[c].adapter].pro
                 THEN "https://api.deepl.com/" ELSE "https://api-free.deepl.com/")
                \o "v2" \o calls[c].path

C7_Witness ==
    \E c \in Callers :
        /\ Dispatched(c)
        /\ ctor[calls[c].adapter].pro
        /\ calls[c].sent.url = "https://api.deepl.com/v2/translate"

\* The 2xx body has the shape get_translated_text reads.
HasTranslation(body) ==
    /\ body.kind = "json"
    /\ body.json.t = "dict"
    /\ "translations" \in DOMAIN body.json.v
    /\ Len(body.json.v["translations"]) > 0
    /\ "text" \in DOMAIN body.json.v["translations"][1]

C9_DefaultPayloadSequential ==
    \A c \in Callers :
        (Dispatched(c) /\ calls[c].inv.op \in {"get_usage", "get_supported_languages"}) =>
            calls[c].sent.params = [auth_key |-> Self(c).auth_key]

\* The default mapping held the key of another instance when the call began.
C9_Witness ==
    \E c \in Callers :
        /\ Dispatched(c)
        /\ calls[c].inv.op = "get_usage"
        /\ "auth_key" \in DOMAIN calls[c].seen
        /\ calls[c].seen["auth_key"] # Self(c).auth_key
        /\ calls[c].sent.params = [auth_key |-> Self(c).auth_key]

\* C10: a call with a caller-supplied mapping leaves in it auth_key equal to
\* the configured key and every other entry as it was, whether the call
\* returns or raises; the dispatched auth_key is the configured one; and the
\* configuration of every adapter stays as constructed.
C10_FrameOfPayload ==
    /\ \A a \in Adapters :
         adapters[a] = Adapter_init(ctor[a].cls, ctor[a].authentication_key, ctor[a].pro)
    /\ \A c \in Callers :
         (calls[c].pc = "done" /\ calls[c].inv.given) =>
            /\ DOMAIN own[c] = DOMAIN calls[c].inv.payload \cup {"auth_key"}
            /\ own[c]["auth_key"] = ctor[calls[c].adapter].authentication_key
            /\ \A k \in DOMAIN calls[c].inv.payload \ {"auth_key"} :
                 own[c][k] = calls[c].inv.payload[k]
            /\ calls[c].sent.params["auth_key"] = ctor[calls[c].adapter].authentication_key

C10_Witness ==
    \E c \in Callers :
        /\ calls[c].pc = "done"
        /\ calls[c].outcome.kind = "raise"
        /\ calls[c].inv.payload = [text |-> "Hello", auth_key |-> "K2"]
        /\ own[c] = [text |-> "Hello", auth_key |-> "K1"]

====
